---------------------------- MODULE Spec2Model ----------------------------
(***************************************************************************)
(* A model of final_project.py: a single-player blackjack game.            *)
(*                                                                         *)
(* Money is counted in cents (the program rounds every amount it reads to  *)
(* two decimals).  A card is its rank; suits never influence the game.     *)
(* The shoe is modelled by the number of cards it holds: which card a      *)
(* draw returns is a nondeterministic choice of rank.                      *)
(***************************************************************************)
EXTENDS Integers, Sequences, FiniteSets, TLC

\* ------------------------------------------------------------------ bounds
MaxHandLen == 4          \* HandSpec: cards added to one hand
MaxDraws == 700          \* DeckSpec: draws from one shoe
MaxHits == 1             \* Spec: cards a player may take with Hit in one hit() call
MaxLongHits == 24        \* LongSpec: likewise, in the round of aces
MaxRounds == 1           \* Spec: play_game calls in one session
MaxDeposits == 1         \* Spec: deposits in one session
MaxShuffleLen == 5       \* ShuffleSpec: cards in the list shuffle_deck is given
MaxShuffles == 2         \* ShuffleSpec: successive shuffle_deck calls

\* ------------------------------------------------------------------- cards
Ranks == {"A", "2", "3", "4", "5", "6", "7", "8", "9", "10", "J", "Q", "K"}

\* The ranks the shoe hands out in the game specification.
ShoeRanks == {"A", "6", "K"}

RankNumber ==
  [r \in {"2", "3", "4", "5", "6", "7", "8", "9", "10"} |->
     CASE r = "2" -> 2 [] r = "3" -> 3 [] r = "4" -> 4 [] r = "5" -> 5
       [] r = "6" -> 6 [] r = "7" -> 7 [] r = "8" -> 8 [] r = "9" -> 9
       [] r = "10" -> 10]

\* Card.get_value
get_value(rank) ==
  IF rank \in {"J", "Q", "K"} THEN 10
  ELSE IF rank = "A" THEN 11
  ELSE RankNumber[rank]

\* -------------------------------------------------------------------- Hand
\* Hand.__init__
NewHand == [cards |-> <<>>, value |-> 0, aces |-> 0]

RECURSIVE ace_adjustment(_)
\* A plausible slip: one demotion per call instead of a loop.
ace_adjustment_once(h) ==
  IF h.value > 21 /\ h.aces > 0
  THEN [h EXCEPT !.value = @ - 10, !.aces = @ - 1]
  ELSE h

\* Hand.ace_adjustment
ace_adjustment(h) ==
  IF h.value > 21 /\ h.aces > 0
  THEN ace_adjustment([h EXCEPT !.value = @ - 10, !.aces = @ - 1])
  ELSE h

\* Hand.add_card
add_card(h, card) ==
  ace_adjustment([cards |-> Append(h.cards, card),
                  value |-> h.value + get_value(card),
                  aces  |-> IF card = "A" THEN h.aces + 1 ELSE h.aces])

\* Hand.is_bust
is_bust(h) == h.value > 21

\* A plausible slip: no hand is recognised as a blackjack.
is_blackjack_never(hand) == FALSE

\* Hand.is_blackjack
is_blackjack(h) ==
  IF Len(h.cards) # 2 THEN FALSE
  ELSE (\E i \in 1..2 : h.cards[i] = "A")
       /\ (\E i \in 1..2 : h.cards[i] # "A" /\ get_value(h.cards[i]) = 10)

\* -------------------------------------------------------------------- Deck
DeckSize == 52           \* 4 suits x 13 ranks

ShufflePoints == 60..85  \* round(random.uniform(0.6, 0.85), 2), in hundredths

\* The shuffle point the game specification draws: the one with the highest
\* reshuffle threshold (124 cards).
GameShufflePoints == {60}

NoDeck == [ncards |-> 0, num_decks |-> 0, shuffle_point |-> 0]

\* Deck.reset_deck: appends num_decks full decks to self.cards (the list is
\* not emptied first), riffles 15 times (length unchanged), burns one card.
reset_deck(d, sp) ==
  [d EXCEPT !.shuffle_point = sp,
            !.ncards = @ + d.num_decks * DeckSize - 1]

\* Deck.__init__
NewDeck(sp) == reset_deck([ncards |-> 0, num_decks |-> 6, shuffle_point |-> 100], sp)

\* A plausible slip: the depletion test is dropped.
needs_reshuffle_never(d) == FALSE

\* A plausible slip: the depletion mark is the shuffle point's share of the
\* shoe, not what is left beyond it.
needs_reshuffle_at_shuffle_point(d) ==
  d.ncards * 100 <= d.num_decks * DeckSize * d.shuffle_point

\* The test of Deck.draw_card: len(cards) <= num_decks * 52 * (1 - shuffle_point).
needs_reshuffle(d) ==
  d.ncards * 100 <= d.num_decks * DeckSize * (100 - d.shuffle_point)

\* random.uniform is called only inside reset_deck: a draw that does not
\* reshuffle draws no shuffle point.
ResetChoices(d, points) ==
  IF needs_reshuffle(d) THEN points ELSE {d.shuffle_point}

\* Deck.draw_card.  popped_from is the length of the list pop() is applied
\* to; pop() of an empty list raises IndexError (ok = FALSE).
draw_card(d, sp) ==
  LET d1 == IF needs_reshuffle(d) THEN reset_deck(d, sp) ELSE d
  IN  [deck        |-> [d1 EXCEPT !.ncards = IF @ > 0 THEN @ - 1 ELSE 0],
       reshuffled  |-> needs_reshuffle(d),
       popped_from |-> d1.ncards,
       ok          |-> d1.ncards > 0]

\* ----------------------------------------------------------------- Account
\* Account.__init__
NewAccount ==
  [balance |-> 0, bet |-> 0, net_earnings |-> 0,
   games_played |-> 0, games_won |-> 0, deposited |-> 0]

\* A plausible slip: the deposit is not entered in the deposited total.
deposit_unrecorded(a, amount_usd) == [a EXCEPT !.balance = @ + amount_usd]

\* Account.deposit, after the currency conversion: amount_usd is
\* round(amount / rate, 2); the amount typed is any float, of either sign.
deposit(a, amount_usd) ==
  [a EXCEPT !.balance = @ + amount_usd, !.deposited = @ + amount_usd]

\* A plausible slip: the funds test is dropped.
place_bet_unchecked(a, amount) ==
  [account |-> [a EXCEPT !.balance = @ - amount,
                         !.bet = @ + amount,
                         !.net_earnings = @ - amount],
   ret |-> TRUE]

\* Account.place_bet
place_bet(a, amount) ==
  IF a.balance >= amount
  THEN [account |-> [a EXCEPT !.balance = @ - amount,
                              !.bet = @ + amount,
                              !.net_earnings = @ - amount],
        ret |-> TRUE]
  ELSE [account |-> a, ret |-> FALSE]

\* A plausible slip: the game is not counted.
count_game_not(a) == a

\* account.games_played += 1, at the top of play_game and of split.
count_game(a) == [a EXCEPT !.games_played = @ + 1]

\* A plausible slip: the win is counted twice.
game_won_counted_twice(a, amount) ==
  [a EXCEPT !.balance = @ + amount,
            !.net_earnings = @ + amount,
            !.games_won = @ + 2]

\* A plausible slip: the win is paid but not counted.
game_won_uncounted(a, amount) ==
  [a EXCEPT !.balance = @ + amount, !.net_earnings = @ + amount]

\* Account.game_won
game_won(a, amount) ==
  [a EXCEPT !.balance = @ + amount,
            !.net_earnings = @ + amount,
            !.games_won = @ + 1]

\* Half-cent amounts that Python's round(x, 2) takes up rather than down:
\* 2.5 * 2.15 is the double 5.375, rounded to 5.38, while 2.5 * 2.01 is the
\* double 5.0249999999999995, rounded to 5.02.
HalfCentsRoundedUp == {1075}

\* round(x, 2) of an amount given in half cents, result in cents.
round2(halfcents) ==
  IF halfcents % 2 = 0 THEN halfcents \div 2
  ELSE IF halfcents \in HalfCentsRoundedUp THEN (halfcents + 1) \div 2
  ELSE (halfcents - 1) \div 2

\* A plausible slip: the split flag is not consulted.
calculate_payoff_ignoring_split(b, outcome, a, hand, split) ==
  IF outcome = "push"
  THEN [a EXCEPT !.balance = @ + b, !.net_earnings = @ + b]
  ELSE IF outcome = "win"
  THEN IF is_blackjack(hand)
       THEN [a EXCEPT !.games_won = @ + 1,
                      !.balance = @ + round2(5 * b),
                      !.net_earnings = @ + round2(5 * b)]
       ELSE game_won(a, 2 * b)
  ELSE a

\* A plausible slip: a push is paid like a win.
calculate_payoff_push_as_win(b, outcome, a, hand, split) ==
  IF outcome \in {"push", "win"}
  THEN IF is_blackjack(hand) /\ split = 0
       THEN [a EXCEPT !.games_won = @ + 1,
                      !.balance = @ + round2(5 * b),
                      !.net_earnings = @ + round2(5 * b)]
       ELSE game_won(a, 2 * b)
  ELSE a

\* calculate_payoff
calculate_payoff(b, outcome, a, hand, split) ==
  IF outcome = "push"
  THEN [a EXCEPT !.balance = @ + b, !.net_earnings = @ + b]
  ELSE IF outcome = "win"
  THEN IF is_blackjack(hand) /\ split = 0
       THEN [a EXCEPT !.games_won = @ + 1,
                      !.balance = @ + round2(5 * b),
                      !.net_earnings = @ + round2(5 * b)]
       ELSE game_won(a, 2 * b)
  ELSE a

\* The outcome check_winner passes to calculate_payoff ("lose": no call).
outcome_of(hand, d_hand) ==
  IF hand.value > d_hand.value THEN "win"
  ELSE IF hand.value < d_hand.value THEN "lose"
  ELSE "push"

\* A plausible slip: the player wins a tie.
check_winner_ties_win(hand, d_hand, a, b, split) ==
  IF hand.value >= d_hand.value
  THEN [account |-> calculate_payoff(b, "win", a, hand, split),
        message |-> "You win!"]
  ELSE [account |-> a, message |-> "Dealer wins."]

\* check_winner: the account after the payoff and the message returned.
check_winner(hand, d_hand, a, b, split) ==
  IF hand.value > d_hand.value
  THEN [account |-> calculate_payoff(b, "win", a, hand, split),
        message |-> "You win!"]
  ELSE IF hand.value < d_hand.value
  THEN [account |-> a, message |-> "Dealer wins."]
  ELSE [account |-> calculate_payoff(b, "push", a, hand, split),
        message |-> "Push!"]

\* ------------------------------------------------------------------- state
VARIABLES
  pc,            \* where the program waits for input
  account,       \* the Account
  bet,           \* play_game's bet
  deck,          \* the Deck of the round
  player_hand, dealer_hand, player_hand1, player_hand2,   \* the Hands
  action,        \* play_game's action ("None" until get_action returns)
  action1, action2,    \* split's results of play_split ("None" or "D")
  message1, message2,  \* split's local messages ("unbound" until assigned)
  cur,           \* which hand is being played: 0 (no split), 1, 2
  hits,          \* cards taken in the running hit() call
  rounds, deposits,    \* play_game calls and deposits so far
  start,         \* the Account as play_game found it
  dealt,         \* the shoe positions the opening cards were popped from
  shuffled,      \* ShuffleSpec: the last shuffle_deck call and the cards it left
  wager,         \* the last place_bet call in this round
  payoffs,       \* the calculate_payoff calls / losses settled in this round
  dealer_log,    \* the dealer-play calls of this round
  lastDraw,      \* DeckSpec: the last draw_card call
  cycleDrawn,    \* DeckSpec: cards popped since the last reset_deck
  draws          \* DeckSpec: draw_card calls so far

vars ==
  <<pc, account, bet, deck, player_hand, dealer_hand, player_hand1,
    player_hand2, action, action1, action2, message1, message2, cur, hits, rounds, start, dealt, shuffled,
    deposits, wager, payoffs, dealer_log, lastDraw, cycleDrawn, draws>>

gameVars ==
  <<account, bet, player_hand, dealer_hand, player_hand1, player_hand2,
    action, action1, action2, message1, message2, cur, hits, rounds, start, dealt, deposits,
    wager, payoffs, dealer_log>>

deckVars == <<deck, lastDraw, cycleDrawn, draws>>

NoWager == [called |-> FALSE, amount |-> 0, pre |-> NewAccount,
            post |-> NewAccount, ret |-> FALSE]

NoDealerLog == [kind |-> "none", before |-> <<>>, ret |-> "none"]

\* No shuffle_deck call yet, and no cards.
NoShuffle == [cards |-> <<>>, before |-> <<>>, divisor |-> 0, iterations |-> 0,
             calls |-> 0]

\* No opening deal yet.
NoDeal == [player |-> <<>>, dealer |-> <<>>]

NoDraw == [called |-> FALSE, before |-> 0, reshuffled |-> FALSE,
           popped_from |-> 0, ok |-> TRUE]

\* The state every specification starts from, but for pc and its own part.
Fresh ==
  /\ account = NewAccount
  /\ bet = 0
  /\ deck = NoDeck
  /\ player_hand = NewHand /\ dealer_hand = NewHand
  /\ player_hand1 = NewHand /\ player_hand2 = NewHand
  /\ action = "None" /\ action1 = "None" /\ action2 = "None"
  /\ message1 = "unbound" /\ message2 = "unbound"
  /\ cur = 0 /\ hits = 0 /\ rounds = 0 /\ deposits = 0
  /\ start = NewAccount /\ dealt = NoDeal
  /\ shuffled = NoShuffle
  /\ wager = NoWager
  /\ payoffs = <<>>
  /\ dealer_log = NoDealerLog
  /\ lastDraw = NoDraw
  /\ cycleDrawn = 0
  /\ draws = 0

\* ---------------------------------------------------------------- HandSpec
\* Any sequence of add_card calls on a fresh Hand.
HandInit == Fresh /\ pc = "hand"

HandAddCard(card) ==
  /\ pc = "hand"
  /\ Len(player_hand.cards) < MaxHandLen
  /\ player_hand' = add_card(player_hand, card)
  /\ UNCHANGED <<pc, account, bet, deck, dealer_hand, player_hand1,
                 player_hand2, action, action1, action2, message1, message2, cur,
                 hits, rounds, start, dealt, shuffled, deposits, wager, payoffs, dealer_log,
                 lastDraw, cycleDrawn, draws>>

HandNext == \E card \in Ranks : HandAddCard(card)

HandSpec == HandInit /\ [][HandNext]_vars

\* ---------------------------------------------------------------- DeckSpec
\* A Deck is constructed and cards are drawn from it.
DeckInit ==
  /\ pc = "deck"
  /\ account = NewAccount
  /\ bet = 0
  /\ \E sp \in ShufflePoints : deck = NewDeck(sp)
  /\ player_hand = NewHand /\ dealer_hand = NewHand
  /\ player_hand1 = NewHand /\ player_hand2 = NewHand
  /\ action = "None" /\ action1 = "None" /\ action2 = "None"
  /\ message1 = "unbound" /\ message2 = "unbound"
  /\ cur = 0 /\ hits = 0 /\ rounds = 0 /\ deposits = 0
  /\ start = NewAccount /\ dealt = NoDeal
  /\ shuffled = NoShuffle
  /\ wager = NoWager
  /\ payoffs = <<>>
  /\ dealer_log = NoDealerLog
  /\ lastDraw = NoDraw
  /\ cycleDrawn = 0
  /\ draws = 0

DeckDraw(sp) ==
  /\ pc = "deck"
  /\ draws < MaxDraws
  /\ lastDraw.ok
  /\ LET r == draw_card(deck, sp) IN
       /\ deck' = r.deck
       /\ lastDraw' = [called |-> TRUE, before |-> deck.ncards,
                       reshuffled |-> r.reshuffled,
                       popped_from |-> r.popped_from, ok |-> r.ok]
       /\ cycleDrawn' = IF r.reshuffled THEN 1 ELSE cycleDrawn + 1
  /\ draws' = draws + 1
  /\ UNCHANGED <<pc, shuffled>>
  /\ UNCHANGED gameVars

DeckNext == \E sp \in ResetChoices(deck, ShufflePoints) : DeckDraw(sp)

DeckSpec == DeckInit /\ [][DeckNext]_vars

\* -------------------------------------------------------------------- game
MinBet == 200            \* get_bet: "if bet < 2: raise ValueError"

\* What the player types at "Set bet amount" (100: below the minimum).
BetInputs == {100, 201}

\* What Account.deposit adds: round(amount / rate, 2) for the amount typed.
DepositInputs == {-100, 100, 400, 700}

\* What the player types at an action prompt ("X": anything else).
ActionInputs == {"H", "S", "D", "L", "X"}

PromptSplit == "Do you want to hit (H), stand (S), double (D) or split (L): "
PromptNoSplit == "Do you want to hit (H) or stand (S), double (D): "

\* split_allowed
split_allowed(hand) ==
  IF get_value(hand.cards[1]) = get_value(hand.cards[2])
  THEN PromptSplit
  ELSE PromptNoSplit

\* A plausible slip: every prompt is taken to offer the split.
mentions_split_always(prompt) == TRUE

\* get_action's test: "split" in actions
mentions_split(prompt) == prompt = PromptSplit

\* A plausible slip: a Double is allowed without a further bet.
action_allowed_double_free(b, a, acct) ==
  IF a \in {"H", "S", "D"}
  THEN [ret |-> TRUE, account |-> acct, placed |-> FALSE]
  ELSE IF a = "L"
  THEN [ret |-> place_bet(acct, b).ret,
        account |-> place_bet(acct, b).account,
        placed |-> TRUE]
  ELSE [ret |-> FALSE, account |-> acct, placed |-> FALSE]

\* action_allowed: a Double or a Split places one more bet.
action_allowed(b, a, acct) ==
  IF a \in {"H", "S"}
  THEN [ret |-> TRUE, account |-> acct, placed |-> FALSE]
  ELSE IF a \in {"D", "L"}
  THEN [ret |-> place_bet(acct, b).ret,
        account |-> place_bet(acct, b).account,
        placed |-> TRUE]
  ELSE [ret |-> FALSE, account |-> acct, placed |-> FALSE]

\* One pass of get_action's loop for the input a.
get_action(prompt, b, acct, a) ==
  LET options == {"H", "S", "D"} \cup
                 (IF mentions_split(prompt) THEN {"L"} ELSE {})
      allowed == action_allowed(b, a, acct)
  IN  IF ~mentions_split(prompt) /\ a = "L"
      THEN [accepted |-> FALSE, account |-> acct, placed |-> FALSE]
      ELSE IF a \in options
      THEN [accepted |-> allowed.ret, account |-> allowed.account,
            placed |-> allowed.placed]
      ELSE [accepted |-> FALSE, account |-> acct, placed |-> FALSE]

\* n successive draw_card calls.
RECURSIVE draw_cards(_, _, _)
draw_cards(d, sp, n) ==
  IF n = 0
  THEN [deck |-> d, reshuffled |-> FALSE, popped_from |-> d.ncards, ok |-> TRUE]
  ELSE LET r == draw_card(d, sp)
           rest == draw_cards(r.deck, sp, n - 1)
       IN  [deck |-> rest.deck,
            reshuffled |-> r.reshuffled \/ rest.reshuffled,
            popped_from |-> IF n = 1 THEN r.popped_from ELSE rest.popped_from,
            ok |-> r.ok /\ rest.ok]

\* The record kept of the draws of one step: earlier draws of the step (pre)
\* followed by the draws r made from the deck d.
DrawLog(pre, d, r) ==
  [called |-> TRUE,
   before |-> IF pre.called THEN pre.before ELSE d.ncards,
   reshuffled |-> pre.reshuffled \/ r.reshuffled,
   popped_from |-> r.popped_from,
   ok |-> pre.ok /\ r.ok]

\* An uncaught exception ends the program.
Goto(ok, target) == IF ok THEN target ELSE "crashed"

\* A plausible slip: the dealer stands on 16.
dealer_must_draw_16(h) == h.value < 16

\* The loop test of dealer_play: while d_hand.value < 17.
dealer_must_draw(h) == h.value < 17

\* The loop test of split_dealer_play: while dealer_hand.value < 17.
split_dealer_must_draw(h) == h.value < 17

\* dealer_play from its loop test to its next input() or return:
\* status "bust": returned False; "done": returned True; "wait": waits at
\* "Hit enter to continue...".
dealer_play(dh, d, card, sp) ==
  IF dealer_must_draw(dh)
  THEN LET h == add_card(dh, card)
       IN  [hand |-> h, drew |-> TRUE, draw |-> draw_cards(d, sp, 1),
            status |-> IF is_bust(h) THEN "bust"
                       ELSE IF dealer_must_draw(h) THEN "wait" ELSE "done",
            ret |-> IF is_bust(h) THEN "False"
                    ELSE IF dealer_must_draw(h) THEN "running" ELSE "True"]
  ELSE [hand |-> dh, drew |-> FALSE, draw |-> draw_cards(d, sp, 0),
        status |-> "done", ret |-> "True"]

\* split_dealer_play, likewise; it returns None on both exits.
split_dealer_play(dh, d, card, sp) ==
  IF split_dealer_must_draw(dh)
  THEN LET h == add_card(dh, card)
       IN  [hand |-> h, drew |-> TRUE, draw |-> draw_cards(d, sp, 1),
            status |-> IF is_bust(h) THEN "bust"
                       ELSE IF split_dealer_must_draw(h) THEN "wait" ELSE "done",
            ret |-> IF is_bust(h) THEN "None"
                    ELSE IF split_dealer_must_draw(h) THEN "running" ELSE "None"]
  ELSE [hand |-> dh, drew |-> FALSE, draw |-> draw_cards(d, sp, 0),
        status |-> "done", ret |-> "None"]

\* The record of one dealer-play call: the dealer's value before each draw.
DealerLog(kind, dh, t) ==
  [kind |-> kind,
   before |-> IF t.drew THEN Append(dealer_log.before, dh.value)
              ELSE dealer_log.before,
   ret |-> t.ret]

\* The record of one settled hand: a calculate_payoff call, or check_winner
\* finding the dealer ahead (outcome "lose", no call).
Settlement(n, b, outcome, hand, split, pre, post) ==
  [hand |-> n, bet |-> b, outcome |-> outcome,
   blackjack |-> is_blackjack(hand), split |-> split,
   delta |-> post.balance - pre.balance,
   earned |-> post.net_earnings - pre.net_earnings,
   won |-> post.games_won - pre.games_won]

\* A plausible slip: a doubled hand is settled at the opening bet.
Stake_single(a, b) == b

\* The stake of an un-split round: play_game passes bet * 2 after a Double.
Stake(a, b) == IF a = "D" THEN 2 * b ELSE b

\* play_game from a dealer_play call to the next input(): the dealer draws;
\* on its return the hand ph is paid (dealer bust) or check_winner decides.
UnsplitDealer(ph, dh, d, acct, stake, card, sp, pre) ==
  LET t == dealer_play(dh, d, card, sp)
      outcome == IF t.status = "bust" THEN "win" ELSE outcome_of(ph, t.hand)
      paid == IF t.status = "bust"
              THEN calculate_payoff(stake, "win", acct, ph, 0)
              ELSE IF t.status = "done"
              THEN check_winner(ph, t.hand, acct, stake, 0).account
              ELSE acct
  IN  /\ dealer_hand' = t.hand
      /\ deck' = t.draw.deck
      /\ lastDraw' = DrawLog(pre, d, t.draw)
      /\ dealer_log' = DealerLog("dealer_play", dh, t)
      /\ account' = paid
      /\ payoffs' = IF t.status = "wait" THEN payoffs
                    ELSE Append(payoffs,
                                Settlement(0, stake, outcome, ph, 0, acct, paid))
      /\ pc' = Goto(t.draw.ok, IF t.status = "wait" THEN "dealer" ELSE "end")

\* ------------------------------------------------------------- main_menu
\* Option 1: play_game up to get_bet's first prompt, or the refusal.
MenuPlay(sp) ==
  /\ pc = "menu"
  /\ rounds < MaxRounds
  /\ IF account.balance = 0
     THEN /\ pc' = "no_funds"
          /\ UNCHANGED <<account, deck, rounds, start>>
     ELSE /\ deck' = NewDeck(sp)
          /\ account' = count_game(account)
          /\ rounds' = rounds + 1
          /\ start' = account
          /\ pc' = "get_bet"
  /\ UNCHANGED <<bet, player_hand, dealer_hand, player_hand1, player_hand2,
                 action, action1, action2, message1, message2, cur, hits,
                 deposits, dealt, shuffled, wager, payoffs, dealer_log, lastDraw, cycleDrawn,
                 draws>>

\* Option 2: the account is printed.
MenuView ==
  /\ pc = "menu"
  /\ pc' = "view"
  /\ UNCHANGED <<account, bet, deck, player_hand, dealer_hand, player_hand1,
                 player_hand2, action, action1, action2, message1, message2,
                 cur, hits, rounds, start, dealt, shuffled, deposits, wager, payoffs, dealer_log,
                 lastDraw, cycleDrawn, draws>>

\* Option 3: Account.deposit.
MenuDeposit(amount_usd) ==
  /\ pc = "menu"
  /\ deposits < MaxDeposits
  /\ account' = deposit(account, amount_usd)
  /\ deposits' = deposits + 1
  /\ UNCHANGED <<pc, bet, deck, player_hand, dealer_hand, player_hand1,
                 player_hand2, action, action1, action2, message1, message2,
                 cur, hits, rounds, start, dealt, shuffled, wager, payoffs, dealer_log, lastDraw,
                 cycleDrawn, draws>>

\* Option 4: sys.exit, directly or at the end of cash_out.
MenuCashOut ==
  /\ pc = "menu"
  /\ pc' = "exited"
  /\ UNCHANGED <<account, bet, deck, player_hand, dealer_hand, player_hand1,
                 player_hand2, action, action1, action2, message1, message2,
                 cur, hits, rounds, start, dealt, shuffled, deposits, wager, payoffs, dealer_log,
                 lastDraw, cycleDrawn, draws>>

\* Enter pressed at a prompt that returns to the main menu; main calls
\* main_menu again, and the round's locals are gone.
ReturnToMenu ==
  /\ pc \in {"no_funds", "view", "end"}
  /\ pc' = "menu"
  /\ bet' = 0
  /\ deck' = NoDeck
  /\ player_hand' = NewHand /\ dealer_hand' = NewHand
  /\ player_hand1' = NewHand /\ player_hand2' = NewHand
  /\ action' = "None" /\ action1' = "None" /\ action2' = "None"
  /\ message1' = "unbound" /\ message2' = "unbound"
  /\ cur' = 0 /\ hits' = 0
  /\ wager' = NoWager
  /\ payoffs' = <<>>
  /\ dealer_log' = NoDealerLog
  /\ lastDraw' = NoDraw
  /\ start' = NewAccount /\ dealt' = NoDeal
  /\ UNCHANGED <<account, rounds, deposits, shuffled, cycleDrawn, draws>>

\* ---------------------------------------------------- play_game, un-split
\* A plausible slip: the dealer is served first.
deal_dealer_first(d, sp, c1, c2, c3) ==
  LET r1 == draw_card(d, sp)
      r2 == draw_card(r1.deck, sp)
      r3 == draw_card(r2.deck, sp)
  IN  [player |-> add_card(add_card(NewHand, c2), c3),
       dealer |-> add_card(NewHand, c1),
       from |-> [player |-> <<r2.popped_from, r3.popped_from>>,
                 dealer |-> <<r1.popped_from>>]]

\* The opening deal of play_game: three successive draw_card calls, whose
\* cards c1, c2, c3 go to the player, the dealer and the player.  from is the
\* length of the shoe each hand's cards were popped from.
deal(d, sp, c1, c2, c3) ==
  LET r1 == draw_card(d, sp)
      r2 == draw_card(r1.deck, sp)
      r3 == draw_card(r2.deck, sp)
  IN  [player |-> add_card(add_card(NewHand, c1), c3),
       dealer |-> add_card(NewHand, c2),
       from |-> [player |-> <<r1.popped_from, r3.popped_from>>,
                 dealer |-> <<r2.popped_from>>]]

\* One answer to get_bet's prompt; an accepted bet is followed by the deal
\* and, on a blackjack, by the dealer's first draw.
GetBet(b, sp) ==
  /\ pc = "get_bet"
  /\ IF b < MinBet
     THEN UNCHANGED vars
     ELSE LET w == place_bet(account, b) IN
       /\ wager' = [called |-> TRUE, amount |-> b, pre |-> account,
                    post |-> w.account, ret |-> w.ret]
       /\ UNCHANGED <<player_hand1, player_hand2, action, action1, action2,
                      message1, message2, cur, hits, rounds, start, shuffled,
                      deposits,
                      cycleDrawn, draws>>
       /\ IF ~w.ret
          THEN /\ account' = w.account
               /\ UNCHANGED <<pc, bet, deck, player_hand, dealer_hand,
                              payoffs, dealer_log, lastDraw, dealt>>
          ELSE \E c1, c2, c3 \in ShoeRanks :
                 LET dl == deal(deck, sp, c1, c2, c3)
                     ph == dl.player
                     dh == dl.dealer
                     r == draw_cards(deck, sp, 3)
                     log == DrawLog(NoDraw, deck, r)
                 IN  /\ bet' = b
                     /\ player_hand' = ph
                     /\ dealt' = dl.from
                     /\ IF is_blackjack(ph)
                        THEN \E c4 \in ShoeRanks :
                               /\ r.ok
                               /\ UnsplitDealer(ph, dh, r.deck, w.account, b,
                                                c4, sp, log)
                        ELSE /\ dealer_hand' = dh
                             /\ deck' = r.deck
                             /\ lastDraw' = log
                             /\ account' = w.account
                             /\ pc' = Goto(r.ok, "action")
                             /\ UNCHANGED <<payoffs, dealer_log>>

\* One card for the player inside hit(), play_game's Double or play_split's
\* Double, drawn from the deck d.
PlayerDraw(h, d, card, sp) ==
  [hand |-> add_card(h, card), draw |-> draw_cards(d, sp, 1)]

\* One answer to play_game's get_action prompt, and what the chosen action
\* does up to the next input().
ChooseAction(a, card, sp) ==
  /\ pc = "action"
  /\ LET g == get_action(split_allowed(player_hand), bet, account, a)
         p == PlayerDraw(player_hand, deck, card, sp)
     IN
     /\ wager' = IF g.placed
                 THEN [called |-> TRUE, amount |-> bet, pre |-> account,
                       post |-> g.account, ret |-> g.accepted]
                 ELSE wager
     /\ UNCHANGED <<bet, action1, action2, message1, message2, cur, rounds, start, dealt, shuffled,
                    deposits, cycleDrawn, draws>>
     /\ IF ~g.accepted
        THEN /\ account' = g.account
             /\ UNCHANGED <<pc, deck, player_hand, dealer_hand, player_hand1,
                            player_hand2, action, hits, payoffs, dealer_log,
                            lastDraw>>
        ELSE /\ action' = a
             /\ CASE a = "H" ->
                     /\ player_hand' = p.hand
                     /\ deck' = p.draw.deck
                     /\ lastDraw' = DrawLog(NoDraw, deck, p.draw)
                     /\ hits' = 1
                     /\ account' = g.account
                     /\ pc' = Goto(p.draw.ok,
                                   IF is_bust(p.hand) THEN "end" ELSE "hit")
                     /\ UNCHANGED <<dealer_hand, player_hand1, player_hand2,
                                    payoffs, dealer_log>>
                  [] a = "S" ->
                     /\ UnsplitDealer(player_hand, dealer_hand, deck,
                                      g.account, bet, card, sp, NoDraw)
                     /\ UNCHANGED <<player_hand, player_hand1, player_hand2,
                                    hits>>
                  [] a = "D" ->
                     /\ player_hand' = p.hand
                     /\ deck' = p.draw.deck
                     /\ lastDraw' = DrawLog(NoDraw, deck, p.draw)
                     /\ account' = g.account
                     /\ pc' = Goto(p.draw.ok,
                                   IF is_bust(p.hand) THEN "end"
                                   ELSE "double_continue")
                     /\ UNCHANGED <<dealer_hand, player_hand1, player_hand2,
                                    hits, payoffs, dealer_log>>
                  [] a = "L" ->
                     /\ account' = count_game(g.account)
                     /\ player_hand1' = add_card(NewHand, player_hand.cards[1])
                     /\ player_hand2' = add_card(NewHand, player_hand.cards[2])
                     /\ pc' = "split_deal"
                     /\ UNCHANGED <<deck, player_hand, dealer_hand, hits,
                                    payoffs, dealer_log, lastDraw>>

\* One answer to hit()'s "hit (H) or stand (S)" prompt in an un-split round;
\* the hit() call takes at most limit cards.
HitOrStandUpTo(limit, a, card, sp) ==
  /\ pc = "hit"
  /\ UNCHANGED <<bet, player_hand1, player_hand2, action, action1, action2,
                 message1, message2, cur, rounds, start, dealt, shuffled, deposits, wager,
                 cycleDrawn, draws>>
  /\ CASE a = "H" ->
          LET p == PlayerDraw(player_hand, deck, card, sp) IN
          /\ hits < limit
          /\ player_hand' = p.hand
          /\ deck' = p.draw.deck
          /\ lastDraw' = DrawLog(NoDraw, deck, p.draw)
          /\ hits' = hits + 1
          /\ pc' = Goto(p.draw.ok, IF is_bust(p.hand) THEN "end" ELSE "hit")
          /\ UNCHANGED <<account, dealer_hand, payoffs, dealer_log>>
       [] a = "S" ->
          /\ UnsplitDealer(player_hand, dealer_hand, deck, account,
                           Stake(action, bet), card, sp, NoDraw)
          /\ UNCHANGED <<player_hand, hits>>
       [] OTHER ->
          UNCHANGED <<pc, account, deck, player_hand, dealer_hand, hits,
                      payoffs, dealer_log, lastDraw>>

HitOrStand(a, card, sp) == HitOrStandUpTo(MaxHits, a, card, sp)

\* Enter at "Hit enter to continue." after a Double that did not bust.
DoubleContinue(card, sp) ==
  /\ pc = "double_continue"
  /\ UnsplitDealer(player_hand, dealer_hand, deck, account,
                   Stake(action, bet), card, sp, NoDraw)
  /\ UNCHANGED <<bet, player_hand, player_hand1, player_hand2, action,
                 action1, action2, message1, message2, cur, hits, rounds, start, dealt, shuffled,
                 deposits, wager, cycleDrawn, draws>>

\* Enter at dealer_play's "Hit enter to continue...".
DealerContinue(card, sp) ==
  /\ pc = "dealer"
  /\ UnsplitDealer(player_hand, dealer_hand, deck, account,
                   Stake(action, bet), card, sp, NoDraw)
  /\ UNCHANGED <<bet, player_hand, player_hand1, player_hand2, action,
                 action1, action2, message1, message2, cur, hits, rounds, start, dealt, shuffled,
                 deposits, wager, cycleDrawn, draws>>

\* ------------------------------------------------------------------ split
\* A plausible slip: a doubled sub-hand is settled at the original bet.
split_stake_single(a, b) == b

\* The stake split passes for a sub-hand: bet * 2 if play_split returned "D".
split_stake(a, b) == IF a = "D" THEN b * 2 ELSE b

\* split from the split_dealer_play call to the next input(): the dealer
\* draws; on its return each hand that did not bust is paid (dealer bust) or
\* compared by check_winner, and the two messages are printed.  A message
\* that was never assigned makes the print raise UnboundLocalError.
SplitDealer(h1, h2, a1, a2, acct, d, dh, dcard, sp, pre) ==
  LET t == split_dealer_play(dh, d, dcard, sp)
      stake1 == split_stake(a1, bet)
      stake2 == split_stake(a2, bet)
      dbust == is_bust(t.hand)
      acct1 == IF is_bust(h1) THEN acct
               ELSE IF dbust THEN calculate_payoff(stake1, "win", acct, h1, 1)
               ELSE check_winner(h1, t.hand, acct, stake1, 1).account
      m1 == IF is_bust(h1) THEN message1
            ELSE IF dbust THEN "You win!"
            ELSE check_winner(h1, t.hand, acct, stake1, 1).message
      acct2 == IF is_bust(h2) THEN acct1
               ELSE IF dbust THEN calculate_payoff(stake2, "win", acct1, h2, 1)
               ELSE check_winner(h2, t.hand, acct1, stake2, 1).account
      m2 == IF is_bust(h2) THEN message2
            ELSE IF dbust THEN "You win!"
            ELSE check_winner(h2, t.hand, acct1, stake2, 1).message
      s1 == IF is_bust(h1) THEN <<>>
            ELSE <<Settlement(1, stake1,
                              IF dbust THEN "win" ELSE outcome_of(h1, t.hand),
                              h1, 1, acct, acct1)>>
      s2 == IF is_bust(h2) THEN <<>>
            ELSE <<Settlement(2, stake2,
                              IF dbust THEN "win" ELSE outcome_of(h2, t.hand),
                              h2, 1, acct1, acct2)>>
  IN  /\ dealer_hand' = t.hand
      /\ deck' = t.draw.deck
      /\ lastDraw' = DrawLog(pre, d, t.draw)
      /\ dealer_log' = DealerLog("split_dealer_play", dh, t)
      /\ IF t.status = "wait"
         THEN /\ account' = acct
              /\ pc' = Goto(t.draw.ok, "split_dealer")
              /\ UNCHANGED <<message1, message2, payoffs>>
         ELSE /\ account' = acct2
              /\ message1' = m1
              /\ message2' = m2
              /\ payoffs' = payoffs \o s1 \o s2
              /\ pc' = Goto(t.draw.ok /\ m1 # "unbound" /\ m2 # "unbound",
                            "end")

\* A plausible slip: the dealer plays whatever the sub-hands did.
split_dealer_needed_always(h1, h2) == TRUE

\* split's test before split_dealer_play: hand 2 has not bust, or else hand 1
\* has not; otherwise "Both bust!" and the round is over.
split_dealer_needed(h1, h2) ==
  IF ~is_bust(h2) THEN TRUE
  ELSE IF ~is_bust(h1) THEN TRUE
  ELSE FALSE

\* split after play_split returned ret for hand n, left as h: after hand 1
\* the prompt "Hit enter to play next hand"; after hand 2 the dealer plays
\* unless both hands bust.
HandDone(n, h, ret, acct, d, dcard, sp, pre) ==
  IF n = 1
  THEN /\ player_hand1' = h
       /\ action1' = ret
       /\ account' = acct
       /\ deck' = d
       /\ lastDraw' = IF pre.called THEN pre ELSE lastDraw
       /\ pc' = Goto(pre.ok, "split_next")
       /\ UNCHANGED <<player_hand2, action2, dealer_hand, message1,
                      message2, payoffs, dealer_log>>
  ELSE /\ player_hand2' = h
       /\ action2' = ret
       /\ UNCHANGED <<player_hand1, action1>>
       /\ IF split_dealer_needed(player_hand1, h)
          THEN /\ pre.ok
               /\ SplitDealer(player_hand1, h, action1, ret, acct, d,
                              dealer_hand, dcard, sp, pre)
          ELSE /\ account' = acct
               /\ deck' = d
               /\ lastDraw' = IF pre.called THEN pre ELSE lastDraw
               /\ pc' = Goto(pre.ok, "end")
               /\ UNCHANGED <<dealer_hand, message1, message2, payoffs,
                              dealer_log>>

\* Enter at "Hit enter to deal...": one card to each hand, then play_split
\* prompts for hand 1.
SplitDeal(c1, c2, sp) ==
  /\ pc = "split_deal"
  /\ LET r == draw_cards(deck, sp, 2) IN
       /\ player_hand1' = add_card(player_hand1, c1)
       /\ player_hand2' = add_card(player_hand2, c2)
       /\ deck' = r.deck
       /\ lastDraw' = DrawLog(NoDraw, deck, r)
       /\ pc' = Goto(r.ok, "split_action")
  /\ cur' = 1
  /\ UNCHANGED <<account, bet, player_hand, dealer_hand, action, action1,
                 action2, message1, message2, hits, rounds, start, dealt, shuffled, deposits, wager,
                 payoffs, dealer_log, cycleDrawn, draws>>

CurHand == IF cur = 1 THEN player_hand1 ELSE player_hand2

\* One answer to play_split's get_action prompt, and what the chosen action
\* does up to the next input().
SplitAction(a, card, dcard, sp) ==
  /\ pc = "split_action"
  /\ LET g == get_action(PromptNoSplit, bet, account, a)
         p == PlayerDraw(CurHand, deck, card, sp)
         log == DrawLog(NoDraw, deck, p.draw)
     IN
     /\ wager' = IF g.placed
                 THEN [called |-> TRUE, amount |-> bet, pre |-> account,
                       post |-> g.account, ret |-> g.accepted]
                 ELSE wager
     /\ UNCHANGED <<bet, player_hand, action, cur, rounds, start, dealt, shuffled, deposits,
                    cycleDrawn, draws>>
     /\ IF ~g.accepted
        THEN /\ account' = g.account
             /\ UNCHANGED <<pc, deck, dealer_hand, player_hand1, player_hand2,
                            action1, action2, message1, message2, hits,
                            payoffs, dealer_log, lastDraw>>
        ELSE CASE a = "H" ->
                  IF is_bust(p.hand)
                  THEN /\ hits' = 0
                       /\ HandDone(cur, p.hand, "None", g.account,
                                   p.draw.deck, dcard, sp, log)
                  ELSE /\ hits' = 1
                       /\ IF cur = 1
                          THEN player_hand1' = p.hand
                               /\ UNCHANGED player_hand2
                          ELSE player_hand2' = p.hand
                               /\ UNCHANGED player_hand1
                       /\ deck' = p.draw.deck
                       /\ lastDraw' = log
                       /\ account' = g.account
                       /\ pc' = Goto(p.draw.ok, "split_hit")
                       /\ UNCHANGED <<dealer_hand, action1, action2,
                                      message1, message2, payoffs,
                                      dealer_log>>
               [] a = "S" ->
                  /\ hits' = 0
                  /\ HandDone(cur, CurHand, "None", g.account, deck, dcard,
                              sp, NoDraw)
               [] a = "D" ->
                  /\ hits' = 0
                  /\ HandDone(cur, p.hand,
                              IF is_bust(p.hand) THEN "None" ELSE "D",
                              g.account, p.draw.deck, dcard, sp, log)

\* One answer to hit()'s prompt inside play_split; the hit() call takes at
\* most limit cards.
SplitHitOrStandUpTo(limit, a, card, dcard, sp) ==
  /\ pc = "split_hit"
  /\ UNCHANGED <<bet, player_hand, action, cur, rounds, start, dealt, shuffled, deposits, wager,
                 cycleDrawn, draws>>
  /\ LET p == PlayerDraw(CurHand, deck, card, sp)
         log == DrawLog(NoDraw, deck, p.draw)
     IN
     CASE a = "H" ->
          /\ hits < limit
          /\ IF is_bust(p.hand)
             THEN /\ hits' = 0
                  /\ HandDone(cur, p.hand, "None", account, p.draw.deck,
                              dcard, sp, log)
             ELSE /\ hits' = hits + 1
                  /\ IF cur = 1
                     THEN player_hand1' = p.hand /\ UNCHANGED player_hand2
                     ELSE player_hand2' = p.hand /\ UNCHANGED player_hand1
                  /\ deck' = p.draw.deck
                  /\ lastDraw' = log
                  /\ pc' = Goto(p.draw.ok, "split_hit")
                  /\ UNCHANGED <<account, dealer_hand, action1, action2,
                                 message1, message2, payoffs, dealer_log>>
       [] a = "S" ->
          /\ hits' = 0
          /\ HandDone(cur, CurHand, "None", account, deck, dcard, sp, NoDraw)
       [] OTHER ->
          UNCHANGED <<pc, account, deck, dealer_hand, player_hand1,
                      player_hand2, action1, action2, message1, message2,
                      hits, payoffs, dealer_log, lastDraw>>

SplitHitOrStand(a, card, dcard, sp) ==
  SplitHitOrStandUpTo(MaxHits, a, card, dcard, sp)

\* Enter at "Hit enter to play next hand": play_split prompts for hand 2.
SplitNext ==
  /\ pc = "split_next"
  /\ pc' = "split_action"
  /\ cur' = 2
  /\ UNCHANGED <<account, bet, deck, player_hand, dealer_hand, player_hand1,
                 player_hand2, action, action1, action2, message1, message2,
                 hits, rounds, start, dealt, shuffled, deposits, wager, payoffs, dealer_log,
                 lastDraw, cycleDrawn, draws>>

\* Enter at split_dealer_play's "Hit enter to continue...".
SplitDealerContinue(dcard, sp) ==
  /\ pc = "split_dealer"
  /\ SplitDealer(player_hand1, player_hand2, action1, action2, account, deck,
                 dealer_hand, dcard, sp, NoDraw)
  /\ UNCHANGED <<bet, player_hand, player_hand1, player_hand2, action,
                 action1, action2, cur, hits, rounds, start, dealt, shuffled, deposits, wager,
                 cycleDrawn, draws>>

\* -------------------------------------------------------------------- Spec
\* main: a fresh Account, then main_menu over and over.
Init == Fresh /\ pc = "menu"

\* A draw of the next four may reshuffle, and only then is a shuffle point
\* drawn.
GameResetChoices ==
  IF \E k \in 0..3 : needs_reshuffle([deck EXCEPT !.ncards = @ - k])
  THEN GameShufflePoints
  ELSE {deck.shuffle_point}

Next ==
  \/ \E sp \in GameShufflePoints : MenuPlay(sp)
  \/ MenuView
  \/ \E amount_usd \in DepositInputs : MenuDeposit(amount_usd)
  \/ MenuCashOut
  \/ ReturnToMenu
  \/ \E b \in BetInputs, sp \in GameResetChoices : GetBet(b, sp)
  \/ \E a \in ActionInputs, card \in ShoeRanks, sp \in GameResetChoices :
       ChooseAction(a, card, sp)
  \/ \E a \in ActionInputs, card \in ShoeRanks, sp \in GameResetChoices :
       HitOrStand(a, card, sp)
  \/ \E card \in ShoeRanks, sp \in GameResetChoices : DoubleContinue(card, sp)
  \/ \E card \in ShoeRanks, sp \in GameResetChoices : DealerContinue(card, sp)
  \/ \E c1, c2 \in ShoeRanks, sp \in GameResetChoices : SplitDeal(c1, c2, sp)
  \/ \E a \in ActionInputs, card, dcard \in ShoeRanks, sp \in GameResetChoices :
       SplitAction(a, card, dcard, sp)
  \/ \E a \in ActionInputs, card, dcard \in ShoeRanks, sp \in GameResetChoices :
       SplitHitOrStand(a, card, dcard, sp)
  \/ SplitNext
  \/ \E dcard \in ShoeRanks, sp \in GameResetChoices :
       SplitDealerContinue(dcard, sp)

Spec == Init /\ [][Next]_vars

\* ---------------------------------------------------------------- LongSpec
\* The longest rounds: after the opening deal the shoe yields nothing but
\* aces, the card that adds least to a hand, and a hit() call goes on for up
\* to MaxLongHits cards.
LongShoeRanks == {"A"}

LongNext ==
  \/ \E sp \in GameShufflePoints : MenuPlay(sp)
  \/ MenuView
  \/ \E amount_usd \in DepositInputs : MenuDeposit(amount_usd)
  \/ MenuCashOut
  \/ ReturnToMenu
  \/ \E b \in BetInputs, sp \in GameResetChoices : GetBet(b, sp)
  \/ \E a \in ActionInputs, card \in LongShoeRanks, sp \in GameResetChoices :
       ChooseAction(a, card, sp)
  \/ \E a \in ActionInputs, card \in LongShoeRanks, sp \in GameResetChoices :
       HitOrStandUpTo(MaxLongHits, a, card, sp)
  \/ \E card \in LongShoeRanks, sp \in GameResetChoices :
       DoubleContinue(card, sp)
  \/ \E card \in LongShoeRanks, sp \in GameResetChoices :
       DealerContinue(card, sp)
  \/ \E c1, c2 \in LongShoeRanks, sp \in GameResetChoices :
       SplitDeal(c1, c2, sp)
  \/ \E a \in ActionInputs, card, dcard \in LongShoeRanks,
        sp \in GameResetChoices :
       SplitAction(a, card, dcard, sp)
  \/ \E a \in ActionInputs, card, dcard \in LongShoeRanks,
        sp \in GameResetChoices :
       SplitHitOrStandUpTo(MaxLongHits, a, card, dcard, sp)
  \/ SplitNext
  \/ \E dcard \in LongShoeRanks, sp \in GameResetChoices :
       SplitDealerContinue(dcard, sp)

LongSpec == Init /\ [][LongNext]_vars

\* -------------------------------------------------------------- ShuffleSpec
\* Deck.shuffle_deck, called again and again on a list of distinct cards.
\* 2 + random.randint(-1, 3)
Divisors == 1..5

\* random.random() < prob_left takes the card from the left pile, otherwise
\* from the right; prob_left is 0.4, 0.5 or 0.6, so either can always happen.
Sides == {"left", "right"}

\* A plausible slip: what is left of a pile when the other empties is lost.
RECURSIVE riffle_without_remainder(_, _, _)
riffle_without_remainder(left, right, choices) ==
  IF left # <<>> /\ right # <<>>
  THEN LET from_left == Head(choices) = "left"
           rest == IF from_left
                   THEN riffle_without_remainder(Tail(left), right, Tail(choices))
                   ELSE riffle_without_remainder(left, Tail(right), Tail(choices))
       IN  [cards |-> <<IF from_left THEN Head(left) ELSE Head(right)>>
                        \o rest.cards,
            iterations |-> rest.iterations + 1]
  ELSE [cards |-> <<>>, iterations |-> 0]

\* shuffle_deck's loop "while left and right" and the two extend calls after
\* it: choices[i] is the pile the i-th iteration pops from.
RECURSIVE riffle(_, _, _)
riffle(left, right, choices) ==
  IF left # <<>> /\ right # <<>>
  THEN LET from_left == Head(choices) = "left"
           rest == IF from_left
                   THEN riffle(Tail(left), right, Tail(choices))
                   ELSE riffle(left, Tail(right), Tail(choices))
       IN  [cards |-> <<IF from_left THEN Head(left) ELSE Head(right)>>
                        \o rest.cards,
            iterations |-> rest.iterations + 1]
  ELSE [cards |-> left \o right, iterations |-> 0]

\* Deck.shuffle_deck: cut = len(cards) // divisor, left = cards[:cut],
\* right = cards[cut:].
shuffle_deck(cards, divisor, choices) ==
  LET cut == Len(cards) \div divisor
  IN  riffle(SubSeq(cards, 1, cut), SubSeq(cards, cut + 1, Len(cards)),
             choices)

ShuffleInit ==
  /\ pc = "shuffle"
  /\ account = NewAccount
  /\ bet = 0
  /\ deck = NoDeck
  /\ player_hand = NewHand /\ dealer_hand = NewHand
  /\ player_hand1 = NewHand /\ player_hand2 = NewHand
  /\ action = "None" /\ action1 = "None" /\ action2 = "None"
  /\ message1 = "unbound" /\ message2 = "unbound"
  /\ cur = 0 /\ hits = 0 /\ rounds = 0 /\ deposits = 0
  /\ start = NewAccount /\ dealt = NoDeal
  /\ \E n \in 1..MaxShuffleLen :
       shuffled = [NoShuffle EXCEPT !.cards = [i \in 1..n |-> i]]
  /\ wager = NoWager
  /\ payoffs = <<>>
  /\ dealer_log = NoDealerLog
  /\ lastDraw = NoDraw
  /\ cycleDrawn = 0
  /\ draws = 0

\* One shuffle_deck call.
ShuffleDeck(divisor, choices) ==
  /\ pc = "shuffle"
  /\ shuffled.calls < MaxShuffles
  /\ LET r == shuffle_deck(shuffled.cards, divisor, choices) IN
       shuffled' = [cards |-> r.cards, before |-> shuffled.cards,
                  divisor |-> divisor, iterations |-> r.iterations,
                  calls |-> shuffled.calls + 1]
  /\ UNCHANGED pc
  /\ UNCHANGED gameVars
  /\ UNCHANGED deckVars

ShuffleNext ==
  \E divisor \in Divisors, choices \in [1..Len(shuffled.cards) -> Sides] :
    ShuffleDeck(divisor, choices)

ShuffleSpec == ShuffleInit /\ [][ShuffleNext]_vars

\* ================================================================== claims
RECURSIVE SumValues(_)
SumValues(cards) ==
  IF cards = <<>> THEN 0
  ELSE get_value(Head(cards)) + SumValues(Tail(cards))

AceCount(cards) == Cardinality({i \in 1..Len(cards) : cards[i] = "A"})

\* Every total of the cards with each ace counted as 1 or as 11.
Totals(cards) ==
  {SumValues(cards) - 10 * k : k \in 0..AceCount(cards)}

SetMax(S) == CHOOSE x \in S : \A y \in S : y <= x
SetMin(S) == CHOOSE x \in S : \A y \in S : x <= y

BestTotal(cards) ==
  LET ok == {t \in Totals(cards) : t <= 21}
  IN  IF ok # {} THEN SetMax(ok) ELSE SetMin(Totals(cards))

\* C1: after every add_card on a fresh Hand, value is the largest total not
\* above 21 that counting each held ace as 1 or 11 can give, or the smallest
\* total (every ace as 1) when all totals exceed 21.
C1_HandValueIsBestTotal ==
  pc = "hand" => player_hand.value = BestTotal(player_hand.cards)

\* C1 witness: an ace, a ten and a second ace: both aces are demoted.
C1_Witness ==
  /\ pc = "hand"
  /\ player_hand.cards = <<"A", "K", "A">>
  /\ player_hand.value = 12

\* C5 (as claimed): the shoe length stays in [1, 311]; a reshuffling draw
\* pops from a shoe of exactly 311 cards; cards drawn in the cycle plus cards
\* remaining is 311.
C5_ShoeLengthInvariant ==
  pc = "deck" =>
    /\ deck.ncards \in 1..311
    /\ (lastDraw.reshuffled => lastDraw.popped_from = 311)
    /\ cycleDrawn + deck.ncards = 311

\* C6: whenever draw_card pops, the shoe is not empty.
C6_PopNeverOnEmptyShoe ==
  lastDraw.called => (lastDraw.ok /\ lastDraw.popped_from >= 1)

\* C6 witness: a draw found the shoe depleted to its threshold, reshuffled,
\* and popped from a non-empty shoe.
C6_Witness ==
  /\ lastDraw.called
  /\ lastDraw.reshuffled
  /\ lastDraw.before >= 1
  /\ lastDraw.popped_from > lastDraw.before

\* C2 (as claimed): every settled hand changes the balance by +bet on a
\* push, +2.5*bet on a win with a two-card ace+ten hand and no split flag,
\* +2*bet on any other win, and 0 on a loss.
C2_PayoffDeltaExact ==
  \A i \in 1..Len(payoffs) :
    LET p == payoffs[i] IN
      /\ p.outcome = "push" => p.delta = p.bet
      /\ (p.outcome = "win" /\ p.blackjack /\ p.split = 0)
           => 2 * p.delta = 5 * p.bet
      /\ (p.outcome = "win" /\ ~(p.blackjack /\ p.split = 0))
           => p.delta = 2 * p.bet
      /\ p.outcome = "lose" => p.delta = 0

\* C2 (amended): as above, but the blackjack credit is 2.5*bet rounded to a
\* whole cent: within half a cent of 2.5*bet, and equal to it when 2.5*bet
\* is a whole number of cents.
C2_PayoffDeltaRounded ==
  \A i \in 1..Len(payoffs) :
    LET p == payoffs[i] IN
      /\ p.outcome = "push" => p.delta = p.bet
      /\ (p.outcome = "win" /\ p.blackjack /\ p.split = 0)
           => /\ 2 * p.delta - 5 * p.bet \in {-1, 0, 1}
              /\ (p.bet % 2 = 0 => 2 * p.delta = 5 * p.bet)
      /\ (p.outcome = "win" /\ ~(p.blackjack /\ p.split = 0))
           => p.delta = 2 * p.bet
      /\ p.outcome = "lose" => p.delta = 0

\* C2 witness: an un-split ace+ten hand bet at $2.01 has won and been
\* credited $5.02.
C2_Witness ==
  \E i \in 1..Len(payoffs) :
    /\ payoffs[i].outcome = "win"
    /\ payoffs[i].blackjack
    /\ payoffs[i].split = 0
    /\ payoffs[i].delta = 502
    /\ payoffs[i].bet = 201

\* C3 (as claimed): the balance is never negative.
C3_BalanceNeverNegative == account.balance >= 0

\* C4: place_bet(amount) returns True exactly when balance >= amount; then
\* it debits the balance and net_earnings by amount and adds amount to the
\* wagered total; otherwise it leaves every field of the account unchanged.
C4_PlaceBetContract ==
  wager.called =>
    LET funded == wager.pre.balance >= wager.amount IN
      /\ wager.ret = funded
      /\ funded =>
           wager.post = [wager.pre EXCEPT !.balance = @ - wager.amount,
                                          !.bet = @ + wager.amount,
                                          !.net_earnings = @ - wager.amount]
      /\ ~funded => wager.post = wager.pre

\* C4 witness: a Double or Split was refused for lack of funds after the
\* opening bet had been accepted.
C4_Witness ==
  /\ wager.called
  /\ ~wager.ret
  /\ wager.pre.balance > 0
  /\ wager.pre.balance < wager.amount
  /\ wager.pre.bet = wager.amount
  /\ account = wager.pre

\* C7 (as claimed): a split round in which exactly one hand busts ends
\* normally: both messages are set and the round waits at its last prompt.
C7_OneBustSplitCompletes ==
  (/\ action = "L"
   /\ pc \in {"end", "crashed"}
   /\ is_bust(player_hand1) # is_bust(player_hand2))
    => (pc = "end" /\ message1 # "unbound" /\ message2 # "unbound")

\* C8 (as claimed): a round that main_menu started finishes.  A round
\* waiting in get_bet leaves it only by a wager of at least $2 that the
\* balance covers, so a round started with funds on the account can finish
\* only if those funds are at least $2.
C8_RoundCanLeaveWagerCollection ==
  (pc = "get_bet" /\ account.balance > 0) => account.balance >= MinBet

\* C9: no hand of a split round is ever credited more than twice its stake:
\* a winning split hand is credited exactly 2x, ace+ten or not, and a credit
\* above 2x goes only to an un-split two-card ace+ten hand.
C9_SplitHandsPaidTwice ==
  \A i \in 1..Len(payoffs) :
    LET p == payoffs[i] IN
      /\ (p.hand # 0 /\ p.outcome = "win") => p.delta = 2 * p.bet
      /\ p.delta > 2 * p.bet => (p.hand = 0 /\ p.blackjack /\ action # "L")

\* C9 witness: a split hand holding exactly an ace and a ten-valued card won
\* and was credited twice its stake.
C9_Witness ==
  \E i \in 1..Len(payoffs) :
    /\ payoffs[i].hand # 0
    /\ payoffs[i].blackjack
    /\ payoffs[i].outcome = "win"
    /\ payoffs[i].delta = 2 * payoffs[i].bet
    /\ action = "L"

DealerReturned == dealer_log.ret \in {"True", "False", "None"}

\* The part of C10 that both dealer loops share: a card is drawn only at a
\* value below 17, the dealer waiting to draw is below 17, the dealer that
\* has returned is at 17 or more, and the loop is bounded (the total with
\* aces as 1 is below 17 before each draw and grows with each card).
DealerRule ==
  dealer_log.kind # "none" =>
    /\ \A i \in 1..Len(dealer_log.before) : dealer_log.before[i] < 17
    /\ Len(dealer_log.before) = Len(dealer_hand.cards) - 1
    /\ dealer_log.ret = "running" => dealer_hand.value < 17
    /\ DealerReturned => dealer_hand.value >= 17
    /\ Len(dealer_hand.cards) <= 17

\* C10 (as claimed): the rule above, and both dealer_play and
\* split_dealer_play return False exactly when the dealer's final value
\* exceeds 21.
C10_DealerRuleBothReturnFalseOnBust ==
  /\ DealerRule
  /\ DealerReturned => ((dealer_log.ret = "False") <=> is_bust(dealer_hand))

\* C10 (amended): the rule above; dealer_play returns False exactly when the
\* dealer's final value exceeds 21 and True otherwise; split_dealer_play
\* returns None in both cases.
C10_DealerRule ==
  /\ DealerRule
  /\ (DealerReturned /\ dealer_log.kind = "dealer_play")
       => /\ dealer_log.ret \in {"True", "False"}
          /\ (dealer_log.ret = "False") <=> is_bust(dealer_hand)
  /\ (DealerReturned /\ dealer_log.kind = "split_dealer_play")
       => dealer_log.ret = "None"

\* C10 witness: the dealer stood on a soft 17 (ace + 6) and dealer_play
\* returned True.
C10_Witness ==
  /\ dealer_log.kind = "dealer_play"
  /\ dealer_log.ret = "True"
  /\ dealer_hand.cards = <<"A", "6">>
  /\ dealer_hand.value = 17
  /\ dealer_hand.aces = 1

\* The hand a settlement record is about: 0 un-split, 1 and 2 the sub-hands.
HandOf(n) ==
  IF n = 0 THEN player_hand ELSE IF n = 1 THEN player_hand1 ELSE player_hand2

\* C11: only hands that have not bust are settled, and only once the dealer
\* has returned.  Against a dealer that has not bust the totals decide: a
\* higher player total is credited as a win (at least twice the stake, one
\* game won), a lower one is credited nothing and leaves the account as it
\* was, an equal one is refunded exactly the stake with no game won.  Against
\* a dealer that bust the hand is credited as a win whatever the totals.  An
\* un-split hand that has not bust is settled when the round ends.
C11_SettlementComparesTotals ==
  /\ \A i \in 1..Len(payoffs) :
       LET p == payoffs[i]
           h == HandOf(p.hand)
           d == dealer_hand
           win == p.won = 1 /\ p.delta >= 2 * p.bet /\ p.earned = p.delta
       IN  /\ ~is_bust(h)
           /\ DealerReturned
           /\ is_bust(d) => win
           /\ (~is_bust(d) /\ h.value > d.value) => win
           /\ (~is_bust(d) /\ h.value < d.value)
                => /\ p.delta = 0 /\ p.earned = 0 /\ p.won = 0
                   /\ p.hand = 0 => account = wager.post
           /\ (~is_bust(d) /\ h.value = d.value)
                => p.delta = p.bet /\ p.earned = p.bet /\ p.won = 0
  /\ (pc = "end" /\ action # "L" /\ ~is_bust(player_hand))
       => Len(payoffs) = 1

\* C11 witness: in one split round the dealer stood without busting, one
\* sub-hand tied with it and was refunded its stake, and the other beat it on
\* totals and was credited twice its stake.
C11_Witness ==
  /\ Len(payoffs) = 2
  /\ ~is_bust(dealer_hand)
  /\ \E i, j \in 1..2 :
       /\ HandOf(payoffs[i].hand).value = dealer_hand.value
       /\ payoffs[i].delta = payoffs[i].bet
       /\ payoffs[i].won = 0
       /\ HandOf(payoffs[j].hand).value > dealer_hand.value
       /\ payoffs[j].delta = 2 * payoffs[j].bet
       /\ payoffs[j].won = 1

\* A round is under way: play_game has been entered and Enter has not yet
\* been pressed at its last prompt.
InRound ==
  pc \in {"get_bet", "action", "hit", "double_continue", "dealer",
          "split_deal", "split_action", "split_hit", "split_next",
          "split_dealer", "end", "crashed"}

\* C12: from the moment play_game is entered games_played is one above its
\* value before the round, and two above it once the player has split; so a
\* round that has ended has added exactly 1 un-split and exactly 2 split,
\* whatever its outcome.
C12_GamesPlayedPerRound ==
  InRound =>
    account.games_played - start.games_played =
      IF action = "L" THEN 2 ELSE 1

\* C12 witness: a split round has ended with both sub-hands settled and
\* games_played two above its value before the round.
C12_Witness ==
  /\ pc = "end"
  /\ action = "L"
  /\ Len(payoffs) = 2
  /\ account.games_played = start.games_played + 2

\* An un-split round has ended.
UnsplitRoundOver == pc = "end" /\ action # "L"

\* The outcome of an ended un-split round, read off the two hands.
RoundOutcome ==
  IF is_bust(player_hand) THEN "lose"
  ELSE IF is_bust(dealer_hand) THEN "win"
  ELSE IF player_hand.value > dealer_hand.value THEN "win"
  ELSE IF player_hand.value < dealer_hand.value THEN "lose"
  ELSE "push"

\* A two-card hand of an ace and a ten-valued card.
AceAndTen(h) ==
  /\ Len(h.cards) = 2
  /\ \E i, j \in 1..2 : h.cards[i] = "A" /\ get_value(h.cards[j]) = 10

\* The amount wagered in the round and the round's net change of balance and
\* of net_earnings.
Wagered == account.bet - start.bet
NetBalance == account.balance - start.balance
NetEarnings == account.net_earnings - start.net_earnings

\* What C13 says of every outcome but the natural-blackjack win.
RoundNetOrdinary ==
  /\ Wagered = (IF action = "D" THEN 2 * bet ELSE bet)
  /\ NetBalance = NetEarnings
  /\ RoundOutcome = "lose" => NetBalance = -Wagered
  /\ RoundOutcome = "push" => NetBalance = 0
  /\ (RoundOutcome = "win" /\ ~AceAndTen(player_hand))
       => NetBalance = Wagered

\* C13 (as claimed): an ended un-split round with S wagered nets -S on a
\* loss, 0 on a push, +S on an ordinary win and exactly +1.5 * S on a
\* natural-blackjack win.
C13_RoundNetExact ==
  UnsplitRoundOver =>
    /\ RoundNetOrdinary
    /\ (RoundOutcome = "win" /\ AceAndTen(player_hand))
         => 2 * NetBalance = 3 * Wagered

\* C13 (amended): as above, but a natural-blackjack win nets
\* round(2.5 * S, 2) - S, which is 1.5 * S when S is an even number of cents
\* and half a cent off otherwise.
C13_RoundNetRounded ==
  UnsplitRoundOver =>
    /\ RoundNetOrdinary
    /\ (RoundOutcome = "win" /\ AceAndTen(player_hand))
         => /\ NetBalance = round2(5 * Wagered) - Wagered
            /\ 2 * NetBalance - 3 * Wagered \in {-1, 0, 1}
            /\ Wagered % 2 = 0 => 2 * NetBalance = 3 * Wagered

\* C13 witness: a doubled hand beat the dealer and the round netted the
\* 2 * bet wagered.
C13_Witness ==
  /\ UnsplitRoundOver
  /\ action = "D"
  /\ RoundOutcome = "win"
  /\ Wagered = 2 * bet
  /\ NetBalance = 2 * bet
  /\ NetEarnings = 2 * bet

\* Every player hand of the round has bust.
AllHandsBust ==
  IF action = "L"
  THEN /\ cur = 2
       /\ is_bust(player_hand1)
       /\ is_bust(player_hand2)
  ELSE is_bust(player_hand)

\* C14: once every player hand of the round has bust (the un-split hand
\* after a Hit or a Double, or both sub-hands of a split) the round is over
\* as a loss: the dealer has made no dealer-play call and still holds the one
\* card it was dealt, nothing has been settled or credited, and the balance
\* is down by everything wagered in the round.
C14_NoDealerPlayWhenAllBust ==
  (InRound /\ AllHandsBust) =>
    /\ pc = "end"
    /\ Len(dealer_hand.cards) = 1
    /\ dealer_log = NoDealerLog
    /\ payoffs = <<>>
    /\ account.games_won = start.games_won
    /\ NetBalance = -Wagered
    /\ NetEarnings = -Wagered

\* C14 witness: both sub-hands of a split round have bust and the round has
\* ended with the dealer holding one card.
C14_Witness ==
  /\ action = "L"
  /\ AllHandsBust
  /\ pc = "end"
  /\ Len(dealer_hand.cards) = 1
  /\ NetBalance = -Wagered

\* The inputs get_action accepts at a prompt, were the funds to allow them.
Offered(prompt) ==
  {a \in ActionInputs :
     get_action(prompt, 0, NewAccount, a).accepted}

\* A two-card hand of the cards c1 and c2.
TwoCards(c1, c2) == add_card(add_card(NewHand, c1), c2)

\* C15: a round is split only by the first decision on the two cards dealt,
\* and only when the two have equal point value: once the player has split,
\* the original hand is those two cards still.  At the first decision the
\* split is accepted only on equal point values, whatever two cards were
\* dealt (a 10 and a king, two aces), and the decisions of a split sub-hand
\* are exactly Hit, Stand and Double.  After the first card of a Hit only Hit
\* and Stand are read, so no later decision can split.
C15_SplitOnlyOnEqualFirstDecision ==
  /\ action = "L"
       => /\ Len(player_hand.cards) = 2
          /\ get_value(player_hand.cards[1]) = get_value(player_hand.cards[2])
          /\ Len(player_hand1.cards) >= 1 /\ Len(player_hand2.cards) >= 1
          /\ player_hand1.cards[1] = player_hand.cards[1]
          /\ player_hand2.cards[1] = player_hand.cards[2]
  /\ pc = "action"
       => /\ Len(player_hand.cards) = 2
          /\ action = "None"
          /\ get_action(split_allowed(player_hand), bet, account, "L").accepted
               => get_value(player_hand.cards[1])
                    = get_value(player_hand.cards[2])
          /\ \A c1, c2 \in Ranks :
               "L" \in Offered(split_allowed(TwoCards(c1, c2)))
                 => get_value(c1) = get_value(c2)
  /\ pc = "split_action"
       => /\ action = "L"
          /\ Offered(PromptNoSplit) = {"H", "S", "D"}
          /\ \A a \in ActionInputs :
               get_action(PromptNoSplit, bet, account, a).accepted
                 => a \in {"H", "S", "D"}
  /\ pc \in {"hit", "split_hit"} => action \in {"H", "L"}

\* C15 witness: two aces were dealt and split, and the first sub-hand is at
\* its decision.
C15_Witness ==
  /\ pc = "split_action"
  /\ cur = 1
  /\ action = "L"
  /\ player_hand.cards = <<"A", "A">>
  /\ player_hand1.cards[1] = "A"
  /\ player_hand2.cards[1] = "A"

\* The cards on the table.
Table == <<deck, player_hand, dealer_hand, player_hand1, player_hand2>>

\* One step taken at a get_action prompt (the first decision or a sub-hand's).
\* A step that records a place_bet call is an answer of Double or Split; the
\* call is for the original bet, succeeds exactly when the balance covers it
\* and then debits one original bet; a failed call leaves the account, the
\* cards and the prompt as they were.  A step that records no call, a Hit, a
\* Stand or an invalid answer, wagers nothing.  A Double is never accepted
\* without its wager.
C16_DecisionStep ==
  pc \in {"action", "split_action"} =>
    /\ wager' # wager =>
         /\ wager'.called
         /\ wager'.amount = bet
         /\ wager'.pre = account
         /\ wager'.ret <=> account.balance >= bet
         /\ wager'.ret =>
              /\ wager'.post = [account EXCEPT !.balance = @ - bet,
                                               !.bet = @ + bet,
                                               !.net_earnings = @ - bet]
              /\ account'.bet = account.bet + bet
              /\ Table' # Table
         /\ ~wager'.ret =>
              /\ account' = account
              /\ Table' = Table
              /\ pc' = pc
              /\ <<action, action1, action2, cur>>'
                   = <<action, action1, action2, cur>>
    /\ wager' = wager =>
         /\ account'.bet = account.bet
         /\ account'.balance >= account.balance
    /\ (action' = "D" /\ action # "D") \/ (action1' = "D" /\ action1 # "D")
         \/ (action2' = "D" /\ action2 # "D")
       => wager' # wager /\ wager'.ret

\* One step taken at hit()'s prompt: a Hit or a Stand wagers nothing.
C16_HitStandStep ==
  pc \in {"hit", "split_hit"} =>
    /\ wager' = wager
    /\ account'.bet = account.bet
    /\ account'.balance >= account.balance

\* C16: Double and Split, a sub-hand's Double included, are accepted exactly
\* when the balance covers the original bet and then debit exactly one more
\* original bet; otherwise they are rejected with the account unchanged, no
\* card drawn and the same prompt repeated.  Hit and Stand place no wager.
C16_WagerOnDoubleAndSplit == [][C16_DecisionStep /\ C16_HitStandStep]_vars

\* C16 witness: after a split and a Double on the first sub-hand the balance
\* no longer covers the bet; the Double asked for the second sub-hand was
\* rejected and the second sub-hand is still at its decision.
C16_Witness ==
  /\ pc = "split_action"
  /\ cur = 2
  /\ action1 = "D"
  /\ wager.called /\ ~wager.ret
  /\ wager.pre = account
  /\ account.balance < bet
  /\ Len(player_hand2.cards) = 2

\* What the round has credited to the balance so far.
Credited == NetBalance + Wagered

\* What C17 says but for the amount of the winning credit: a dealt ace and
\* ten-valued card goes straight to dealer_play, with no decision and nothing
\* wagered beyond the bet, and a dealer finishing on 21 means a push that
\* refunds exactly the bet.
NaturalGoesToDealer ==
  /\ action = "None"
  /\ pc \in {"dealer", "end"}
  /\ dealer_log.kind = "dealer_play"
  /\ Wagered = bet
  /\ pc = "dealer" => Credited = 0
  /\ (pc = "end" /\ dealer_hand.value = 21)
       => /\ Credited = bet
          /\ account.games_won = start.games_won
  /\ (pc = "end" /\ dealer_hand.value # 21)
       => account.games_won = start.games_won + 1

\* C17 (as claimed): the above, and the credit is exactly 2.5 times the bet
\* when the dealer busts or finishes below 21.
C17_NaturalPaidExact ==
  (InRound /\ AceAndTen(player_hand)) =>
    /\ NaturalGoesToDealer
    /\ (pc = "end" /\ dealer_hand.value # 21) => 2 * Credited = 5 * bet

\* C17 (amended): the above, and the credit is round(2.5 * bet, 2) when the
\* dealer busts or finishes below 21: 2.5 times a bet of an even number of
\* cents, and half a cent off otherwise.
C17_NaturalPaidRounded ==
  (InRound /\ AceAndTen(player_hand)) =>
    /\ NaturalGoesToDealer
    /\ (pc = "end" /\ dealer_hand.value # 21)
         => /\ Credited = round2(5 * bet)
            /\ 2 * Credited - 5 * bet \in {-1, 0, 1}
            /\ bet % 2 = 0 => 2 * Credited = 5 * bet

\* C17 witness: the player was dealt king and ace, made no decision, and the
\* dealer drew to 21; the bet was refunded and no game counted as won.
C17_Witness ==
  /\ pc = "end"
  /\ player_hand.cards = <<"K", "A">>
  /\ action = "None"
  /\ dealer_hand.value = 21
  /\ Len(dealer_hand.cards) >= 2
  /\ Credited = bet
  /\ Wagered = bet

\* The player's turn: from the deal to the last decision of the last hand.
PlayerTurn ==
  pc \in {"action", "hit", "double_continue", "split_deal", "split_action",
          "split_hit", "split_next"}

\* C18: no card leaves the shoe before the opening wager is accepted; the
\* opening cards are then popped in the order player, dealer, player (from a
\* new shoe and from the shoe one and two cards shorter); through the whole of the player's turn
\* the dealer holds exactly that one card and has made no dealer-play call;
\* and every further card of the dealer was drawn by a dealer-play call.
C18_DealOrderAndDealerCard ==
  /\ pc = "get_bet"
       => /\ dealt = NoDeal
          /\ player_hand = NewHand /\ dealer_hand = NewHand
          /\ deck = NewDeck(deck.shuffle_point)
  /\ dealt # NoDeal
       => /\ Wagered >= bet /\ bet >= MinBet
          /\ Len(dealt.player) = 2 /\ Len(dealt.dealer) = 1
          /\ dealt.player[1] = NewDeck(deck.shuffle_point).ncards
          /\ dealt.dealer[1] = dealt.player[1] - 1
          /\ dealt.player[2] = dealt.dealer[1] - 1
          /\ Len(player_hand.cards) >= 2
          /\ Len(dealer_hand.cards) = 1 + Len(dealer_log.before)
  /\ PlayerTurn
       => /\ dealt # NoDeal
          /\ Len(dealer_hand.cards) = 1
          /\ dealer_log = NoDealerLog
  /\ (InRound /\ pc # "get_bet") => dealt # NoDeal

\* C18 witness: the second sub-hand of a split round has taken a hit and the
\* dealer still holds the one card popped second from the shoe.
C18_Witness ==
  /\ pc = "split_hit"
  /\ cur = 2
  /\ Len(player_hand2.cards) = 3
  /\ Len(dealer_hand.cards) = 1
  /\ dealt = [player |-> <<311, 309>>, dealer |-> <<310>>]

\* What play_split returned for sub-hand n.
ActionOf(n) == IF n = 1 THEN action1 ELSE action2

\* The sum of the credits of the settlements made so far.
RECURSIVE SumDelta(_)
SumDelta(ps) ==
  IF ps = <<>> THEN 0 ELSE Head(ps).delta + SumDelta(Tail(ps))

\* The sub-hands that have not bust, in order.
StandingHands ==
  (IF is_bust(player_hand1) THEN <<>> ELSE <<1>>)
    \o (IF is_bust(player_hand2) THEN <<>> ELSE <<2>>)

\* C19: once the dealer has returned in a split round, exactly the sub-hands
\* that did not bust have been settled, each against the dealer's final hand
\* and at its own stake: twice the bet if the sub-hand was doubled, the bet
\* otherwise.  A sub-hand ahead of the dealer, or facing a dealer that bust,
\* is credited twice its stake, a tie is refunded the stake, a sub-hand
\* behind is credited nothing; the account has received the sum of the two
\* credits, and the stakes account for what was wagered.
C19_SplitHandsSettledIndependently ==
  (action = "L" /\ DealerReturned) =>
    /\ Len(payoffs) = Len(StandingHands)
    /\ \A i \in 1..Len(payoffs) :
         LET p == payoffs[i]
             h == HandOf(p.hand)
             d == dealer_hand
             stake == IF ActionOf(p.hand) = "D" THEN 2 * bet ELSE bet
         IN  /\ p.hand = StandingHands[i]
             /\ p.bet = stake
             /\ Len(h.cards) = 2 => stake = bet
             /\ (is_bust(d) \/ h.value > d.value)
                  => p.delta = 2 * stake /\ p.won = 1
             /\ (~is_bust(d) /\ h.value = d.value)
                  => p.delta = stake /\ p.won = 0
             /\ (~is_bust(d) /\ h.value < d.value)
                  => p.delta = 0 /\ p.won = 0
    /\ Credited = SumDelta(payoffs)
    /\ Len(payoffs) = 2 => Wagered = payoffs[1].bet + payoffs[2].bet
    /\ Len(payoffs) = 1 => Wagered - payoffs[1].bet \in {bet, 2 * bet}

\* C19 witness: the first sub-hand was doubled, beat the dealer and was
\* credited four times the bet; the second, not doubled, stood below the
\* dealer and was credited nothing.
C19_Witness ==
  /\ action = "L"
  /\ Len(payoffs) = 2
  /\ action1 = "D" /\ action2 # "D"
  /\ ~is_bust(dealer_hand)
  /\ player_hand1.value > dealer_hand.value
  /\ player_hand2.value < dealer_hand.value
  /\ payoffs[1].delta = 4 * bet
  /\ payoffs[2].delta = 0
  /\ Credited = 4 * bet
  /\ Wagered = 3 * bet

\* The settlement p was a win: the dealer bust, or the hand is ahead.
WonHand(p) ==
  is_bust(dealer_hand) \/ HandOf(p.hand).value > dealer_hand.value

\* The number of wins among the settlements made so far.
RECURSIVE Wins(_)
Wins(ps) ==
  IF ps = <<>> THEN 0
  ELSE (IF WonHand(Head(ps)) THEN 1 ELSE 0) + Wins(Tail(ps))

\* In a round, games_won is above its value before the round by the number
\* of hands settled as a win, each of which counted one: an ordinary win, a
\* natural blackjack, a win on a dealer bust, a winning sub-hand.
GamesWonCountsWins ==
  InRound =>
    /\ account.games_won - start.games_won = Wins(payoffs)
    /\ \A i \in 1..Len(payoffs) :
         payoffs[i].won = IF WonHand(payoffs[i]) THEN 1 ELSE 0

\* A deposit, a rejected wager, and any step that settles nothing leave
\* games_won as it was.
GamesWonStep ==
  /\ deposits' # deposits => account'.games_won = account.games_won
  /\ (wager' # wager /\ wager'.called /\ ~wager'.ret)
       => account'.games_won = account.games_won
  /\ payoffs' = payoffs => account'.games_won = account.games_won

\* C20: games_won grows by exactly one for every hand settled as a win and
\* is left unchanged by a push, a loss, a rejected wager and a deposit.
C20_GamesWonCountsWins == [](GamesWonCountsWins) /\ [][GamesWonStep]_vars

\* C20 witness: both sub-hands of a split round won and games_won is two
\* above its value before the round.
C20_Witness ==
  /\ action = "L"
  /\ Len(payoffs) = 2
  /\ WonHand(payoffs[1]) /\ WonHand(payoffs[2])
  /\ account.games_won = start.games_won + 2

\* The ledger balances: what the account holds beyond the deposits is what
\* the play has earned.
LedgerBalanced == account.balance - account.deposited = account.net_earnings

\* Every step that changes the balance changes the deposited total alone, or
\* net_earnings alone, by the same amount; no step changes either of the two
\* without the balance.
LedgerStep ==
  LET dBalance == account'.balance - account.balance
      dDeposited == account'.deposited - account.deposited
      dEarnings == account'.net_earnings - account.net_earnings
  IN  \/ dDeposited = dBalance /\ dEarnings = 0
      \/ dEarnings = dBalance /\ dDeposited = 0

\* C21: in every state before the cash-out balance - deposited =
\* net_earnings, and every step (deposit, wager, win credit, blackjack
\* credit, push refund) moves the balance together with exactly one of
\* deposited and net_earnings.
C21_LedgerConservation ==
  [](pc # "exited" => LedgerBalanced) /\ [][LedgerStep]_vars

\* C21 witness: after a deposit, a wager and the credit of a natural
\* blackjack the ledger balances with earnings above zero.
C21_Witness ==
  /\ pc = "end"
  /\ account.deposited > 0
  /\ Len(payoffs) = 1
  /\ payoffs[1].blackjack /\ payoffs[1].outcome = "win"
  /\ account.net_earnings > 0
  /\ LedgerBalanced

\* games_won is between 0 and games_played, and within a round it has not
\* grown by more than games_played has.
StatisticsConsistent ==
  /\ 0 <= account.games_won
  /\ account.games_won <= account.games_played
  /\ account.bet >= 0
  /\ InRound =>
       /\ account.games_won >= start.games_won
       /\ account.games_won - start.games_won
            <= account.games_played - start.games_played
       /\ account.bet >= start.bet

\* No step lowers the cumulative wagered total or either counter.
StatisticsStep ==
  /\ account'.bet >= account.bet
  /\ account'.games_won >= account.games_won
  /\ account'.games_played >= account.games_played

\* C22: in every state 0 <= games_won <= games_played, and the cumulative
\* wagered total never decreases, split rounds in which both sub-hands win
\* included.
C22_StatisticsConsistent ==
  [](StatisticsConsistent) /\ [][StatisticsStep]_vars

\* C22 witness: both sub-hands of a split round won, so games_won has caught
\* up with games_played at two.
C22_Witness ==
  /\ pc = "end"
  /\ action = "L"
  /\ Len(payoffs) = 2
  /\ payoffs[1].won = 1 /\ payoffs[2].won = 1
  /\ account.games_won = 2
  /\ account.games_played = 2
  /\ account.bet >= 2 * bet

\* The cards popped in the round so far: those in the dealer's hand and in
\* the player's hand, or in the two sub-hands the player's two cards went to.
CardsDrawn ==
  Len(dealer_hand.cards)
    + (IF action = "L"
       THEN Len(player_hand1.cards) + Len(player_hand2.cards)
       ELSE Len(player_hand.cards))

\* The shoe of a Deck constructed with shuffle point sp, n cards later.
ShoeAfter(sp, n) == [NewDeck(sp) EXCEPT !.ncards = @ - n]

\* C23: outside a round there is no Deck; a round starts on a Deck just
\* constructed and its shoe is that Deck's less the cards now on the table,
\* so nothing was carried over and nothing added; no hand holds more than 22
\* cards; the shoe never comes down to the depletion mark, for the Deck's own
\* shuffle point and for any other, and no draw of the round reshuffled.
C23_NoReshuffleInARound ==
  /\ pc \in {"menu", "view", "no_funds"} => deck = NoDeck
  /\ pc = "get_bet" => deck = NewDeck(deck.shuffle_point)
  /\ (InRound /\ pc # "crashed") =>
       /\ deck.num_decks = 6
       /\ deck = ShoeAfter(deck.shuffle_point, CardsDrawn)
       /\ ~needs_reshuffle(deck)
       /\ \A sp \in ShufflePoints : ~needs_reshuffle(ShoeAfter(sp, CardsDrawn))
       /\ lastDraw.called => ~lastDraw.reshuffled /\ lastDraw.ok
       /\ \A h \in {player_hand, player_hand1, player_hand2, dealer_hand} :
            /\ Len(h.cards) <= 22
            /\ ~is_bust(h) => Len(h.cards) <= h.value
  /\ pc = "crashed" => (message1 = "unbound" \/ message2 = "unbound")

\* C23 witness: a split round of aces has ended with 21 cards in each
\* sub-hand and 7 with the dealer, 49 cards from a shoe that never reached
\* its depletion mark.
C23_Witness ==
  /\ pc = "end"
  /\ action = "L"
  /\ Len(player_hand1.cards) = 21
  /\ Len(player_hand2.cards) = 21
  /\ Len(dealer_hand.cards) = 7
  /\ CardsDrawn = 49
  /\ deck.ncards = NewDeck(deck.shuffle_point).ncards - 49
  /\ ~lastDraw.reshuffled

\* The place of the card x in the list s of distinct cards.
PlaceOf(x, s) == CHOOSE i \in 1..Len(s) : s[i] = x

\* The cards of the part of b from place lo to place hi are in c in the
\* order they have in b.
KeepsOrder(b, c, lo, hi) ==
  \A i, j \in lo..hi :
    i < j => PlaceOf(b[i], c) < PlaceOf(b[j], c)

\* How often x occurs in s.
Occurrences(x, s) == Cardinality({i \in 1..Len(s) : s[i] = x})

\* C24: shuffle_deck returns after at most one loop iteration per card; the
\* list it leaves has the length of the list it was given and the same cards
\* as often; the cards of the left part, the first len // divisor, are in
\* their old order, and so are the cards of the right part; with divisor 1
\* the list is unchanged.
C24_RifflePermutation ==
  shuffled.calls > 0 =>
    LET b == shuffled.before
        c == shuffled.cards
        cut == Len(b) \div shuffled.divisor
    IN  /\ shuffled.divisor \in 1..5
        /\ shuffled.iterations <= Len(b)
        /\ Len(c) = Len(b)
        /\ \A x \in 1..MaxShuffleLen + 1 :
             Occurrences(x, c) = Occurrences(x, b)
        /\ KeepsOrder(b, c, 1, cut)
        /\ KeepsOrder(b, c, cut + 1, Len(b))
        /\ shuffled.divisor = 1 => c = b /\ shuffled.iterations = 0

\* C24 witness: a list of five cards was cut into its first two and its last
\* three and came out riffled, no longer in its old order, both parts in
\* theirs.
C24_Witness ==
  /\ shuffled.calls > 0
  /\ shuffled.divisor = 2
  /\ Len(shuffled.before) = 5
  /\ shuffled.cards # shuffled.before
  /\ shuffled.iterations >= 3
  /\ KeepsOrder(shuffled.before, shuffled.cards, 1, 2)
  /\ KeepsOrder(shuffled.before, shuffled.cards, 3, 5)

=============================================================================
